---- MODULE Spec2Model ----
\* MAC address handling (src/util/virmacaddr.c): parsing, formatting, the
\* lenient text comparator, the binary comparators and the generator.
\*
\* A C string is a sequence of character codes; the terminator is the
\* (implicit) code 0 at index Len(s) + 1.  An address is a sequence of
\* VIR_MAC_BUFLEN octets, indexed 1..VIR_MAC_BUFLEN (C index + 1).
EXTENDS Integers, Sequences, FiniteSets, TLC

VARIABLES
    pc,       \* position of the caller / of the running function
    str,      \* virMacAddrParse: the input text
    addr,     \* the destination address (addr->addr)
    ret,      \* the int returned by the last call
    p, q,     \* virMacAddrCompare: the two input texts
    pi, qi,   \* virMacAddrCompare: the two cursors (1-based index into p, q)
    c, d,     \* virMacAddrCompare: the two folded characters
    rdP, rdQ, \* highest index of p / q read so far
    advances, \* number of ++p / ++q executed so far
    ucharFitsInt, \* the build's value of (UCHAR_MAX <= INT_MAX)
    mac1, mac2, mac3, \* three addresses
    raw,      \* a plain buffer of VIR_MAC_BUFLEN bytes
    buf,      \* virMacAddrFormat: the destination string
    cmp,      \* results of the binary comparator calls
    prefix,   \* virMacAddrGenerate: the prefix buffer
    rng,      \* the values virRandomBits(8) is going to return, in order
    draws     \* number of virRandomBits calls made so far

vars == <<pc, str, addr, ret, p, q, pi, qi, c, d, rdP, rdQ, advances,
          ucharFitsInt, mac1, mac2, mac3, raw, buf, cmp, prefix, rng, draws>>

----------------------------------------------------------------------------
\* Sizes and platform types

VIR_MAC_BUFLEN == 6
VIR_MAC_PREFIX_BUFLEN == 3
VIR_MAC_STRING_BUFLEN == VIR_MAC_BUFLEN * 3

\* unsigned long, held at the widest width TLC's integers allow (31 bits); the
\* only use of a strtoul result below compares it with 0xFF.
ULONG_MAX == 2147483647

Octet == 0..255

----------------------------------------------------------------------------
\* Characters

Ascii ==
    ("0" :> 48) @@ ("1" :> 49) @@ ("2" :> 50) @@ ("3" :> 51) @@ ("4" :> 52) @@
    ("5" :> 53) @@ ("6" :> 54) @@ ("7" :> 55) @@ ("8" :> 56) @@ ("9" :> 57) @@
    (":" :> 58) @@
    ("A" :> 65) @@ ("B" :> 66) @@ ("C" :> 67) @@ ("D" :> 68) @@ ("E" :> 69) @@
    ("F" :> 70) @@ ("G" :> 71) @@ ("X" :> 88) @@
    ("a" :> 97) @@ ("b" :> 98) @@ ("c" :> 99) @@ ("d" :> 100) @@ ("e" :> 101) @@
    ("f" :> 102) @@ ("g" :> 103) @@ ("x" :> 120) @@
    (" " :> 32) @@ ("+" :> 43) @@ ("-" :> 45)

\* The code of a character.
Ord(ch) == Ascii[ch]

\* The C string whose characters are the one-character strings of cs.
S(cs) == [i \in 1..Len(cs) |-> Ord(cs[i])]

\* *(s + i - 1): the character at index i, the terminator at Len(s) + 1.
Ch(s, i) == IF i >= 1 /\ i <= Len(s) THEN s[i] ELSE 0

c_isdigit(ch) == ch >= 48 /\ ch <= 57

c_isxdigit(ch) ==
    c_isdigit(ch) \/ (ch >= 65 /\ ch <= 70) \/ (ch >= 97 /\ ch <= 102)

c_tolower_Identity(ch) == ch

c_tolower(ch) == IF ch >= 65 /\ ch <= 90 THEN ch - 65 + 97 ELSE ch

c_isspace(ch) == ch = 32 \/ (ch >= 9 /\ ch <= 13)

\* Value of one hexadecimal digit.
HexDigitValue(ch) ==
    IF c_isdigit(ch) THEN ch - 48
    ELSE IF ch >= 97 THEN ch - 97 + 10 ELSE ch - 65 + 10

----------------------------------------------------------------------------
\* strtoul(nptr, &end_ptr, 16)

RECURSIVE SkipSpace(_, _)
SkipSpace(s, i) == IF c_isspace(Ch(s, i)) THEN SkipSpace(s, i + 1) ELSE i

RECURSIVE HexRun(_, _)
HexRun(s, i) == IF c_isxdigit(Ch(s, i)) THEN 1 + HexRun(s, i + 1) ELSE 0

\* Accumulates n digits from index i onto acc; -1 once the value no longer
\* fits an unsigned long.
RECURSIVE HexAccum(_, _, _, _)
HexAccum(s, i, n, acc) ==
    IF n = 0 THEN acc
    ELSE LET dv == HexDigitValue(Ch(s, i))
         IN  IF acc > (ULONG_MAX - dv) \div 16 THEN -1
             ELSE HexAccum(s, i + 1, n - 1, acc * 16 + dv)

\* [end |-> index of *end_ptr, result |-> the value returned, erange |-> errno
\* was set to ERANGE].
strtoul(s, pos) ==
    LET i1  == SkipSpace(s, pos)
        neg == Ch(s, i1) = Ord("-")
        i2  == IF Ch(s, i1) \in {Ord("-"), Ord("+")} THEN i1 + 1 ELSE i1
        i3  == IF /\ Ch(s, i2) = Ord("0")
                  /\ Ch(s, i2 + 1) \in {Ord("x"), Ord("X")}
                  /\ c_isxdigit(Ch(s, i2 + 2))
               THEN i2 + 2 ELSE i2
        n   == HexRun(s, i3)
        v   == HexAccum(s, i3, n, 0)
    IN  IF n = 0 THEN [end |-> pos, result |-> 0, erange |-> FALSE]
        ELSE IF v = -1 THEN [end |-> i3 + n, result |-> ULONG_MAX, erange |-> TRUE]
        ELSE [end |-> i3 + n,
              result |-> IF neg /\ v > 0 THEN ULONG_MAX - v + 1 ELSE v,
              erange |-> FALSE]

----------------------------------------------------------------------------
\* virMacAddrParse

\* The test that opens each iteration: the group must start with a hex digit.
GroupStartOk_NoCheck(s, pos) == TRUE

GroupStartOk(s, pos) == c_isxdigit(Ch(s, pos))

\* The test on what strtoul consumed.
GroupBad_NoLengthCheck(len, r) == len < 1 \/ r.erange \/ 255 < r.result

GroupBad(len, r) == len < 1 \/ 2 < len \/ r.erange \/ 255 < r.result

\* The test that ends a successful parse.
ParseDone(s, i, end) == i = 5 /\ Ch(s, end) = 0

\* The loop from iteration i (C index) with str at index pos and the
\* destination holding a: [ret, addr] at the function's return.
RECURSIVE ParseLoop(_, _, _, _)
ParseLoop(s, pos, i, a) ==
    IF ~(i < VIR_MAC_BUFLEN) THEN [ret |-> -1, addr |-> a]
    ELSE IF ~GroupStartOk(s, pos) THEN [ret |-> -1, addr |-> a]
    ELSE LET r  == strtoul(s, pos)
             a2 == [a EXCEPT ![i + 1] = r.result % 256]
         IN  IF GroupBad(r.end - pos, r) THEN [ret |-> -1, addr |-> a]
             ELSE IF ParseDone(s, i, r.end) THEN [ret |-> 0, addr |-> a2]
             ELSE IF Ch(s, r.end) # Ord(":") THEN [ret |-> -1, addr |-> a2]
             ELSE ParseLoop(s, r.end + 1, i + 1, a2)

virMacAddrParse(s, a) == ParseLoop(s, 1, 0, a)

----------------------------------------------------------------------------
\* Inputs of the parser

MaxGroups == 7

NoSeq == << >>

\* The groups of "0:1E:FC:E:3a:CB" (the example of the function's comment),
\* repeated when more than six are asked for.
BaseGroups ==
    << S(<<"0">>), S(<<"1","E">>), S(<<"F","C">>), S(<<"E">>),
       S(<<"3","a">>), S(<<"C","B">>) >>

BaseGroup(i) == BaseGroups[((i - 1) % VIR_MAC_BUFLEN) + 1]

Colon == S(<<":">>)

\* What one group position may hold instead: well-formed groups and broken ones.
GroupTokens ==
    { S(<<"0">>), S(<<"7">>), S(<<"a">>), S(<<"F">>), S(<<"0","0">>),
      S(<<"0","E">>), S(<<"f","f">>), S(<<"F","f">>), S(<<"9","9">>),
      NoSeq, S(<<"G">>), S(<<"1","G">>), S(<<"G","1">>), S(<<"g">>),
      S(<<"1","0","0">>), S(<<"0","0","1">>), S(<<"0","x","1">>),
      S(<<"0","X","1">>), S(<<"0","x">>), S(<<"x","1">>), S(<<" ","1">>),
      S(<<"1"," ">>), S(<<"+","1">>), S(<<"-","1">>), S(<<"-","0">>),
      S(<<"1","2","3","4","5","6","7","8","9">>) }

\* What one separator position may hold instead of the ':'.
BadSeparators == { NoSeq, S(<<" ">>), S(<<"-">>) }

\* What may follow the last group.
Tails == { NoSeq, S(<<":">>), S(<<" ">>), S(<<"G">>) }

\* n groups, the base ones but for group k, joined by ':' but for the
\* separator after group j (none when j = 0).
RECURSIVE Join(_, _, _, _, _, _)
Join(i, n, k, tok, j, sep) ==
    IF i > n THEN NoSeq
    ELSE (IF i = k THEN tok ELSE BaseGroup(i))
         \o (IF i = n THEN NoSeq ELSE IF i = j THEN sep ELSE Colon)
         \o Join(i + 1, n, k, tok, j, sep)

ParseInputsUpTo(maxGroups) ==
    UNION { { Join(1, n, k, tok, j, sep) \o tail :
                k \in 1..n, tok \in GroupTokens,
                j \in 0..(n - 1), sep \in BadSeparators, tail \in Tails } :
            n \in 1..maxGroups }
    \cup Tails

\* What the destination holds before the call.
StartAddrs == { [i \in 1..VIR_MAC_BUFLEN |-> 238],
                [i \in 1..VIR_MAC_BUFLEN |-> 16 + i] }

ZeroAddr == [i \in 1..VIR_MAC_BUFLEN |-> 0]

----------------------------------------------------------------------------
\* Values of the variables a specification does not use

IdleParse == str = NoSeq /\ addr = ZeroAddr
IdleCompare ==
    /\ p = NoSeq /\ q = NoSeq /\ pi = 1 /\ qi = 1 /\ c = 0 /\ d = 0
    /\ rdP = 0 /\ rdQ = 0 /\ advances = 0 /\ ucharFitsInt = TRUE
IdleBinary ==
    /\ mac1 = ZeroAddr /\ mac2 = ZeroAddr /\ mac3 = ZeroAddr
    /\ raw = ZeroAddr /\ cmp = NoSeq
IdleFormat == buf = NoSeq
IdleGenerate == prefix = NoSeq /\ rng = NoSeq /\ draws = 0

compareVars == <<p, q, pi, qi, c, d, rdP, rdQ, advances, ucharFitsInt>>
binaryVars == <<mac1, mac2, mac3, raw, cmp>>
generateVars == <<prefix, rng, draws>>

----------------------------------------------------------------------------
\* SpecParse: one call of virMacAddrParse on each input

InitParse ==
    /\ pc = "call"
    /\ str \in ParseInputsUpTo(MaxGroups)
    /\ addr \in StartAddrs
    /\ ret = 0
    /\ IdleCompare /\ IdleBinary /\ IdleFormat /\ IdleGenerate

CallParse ==
    /\ pc = "call"
    /\ LET r == virMacAddrParse(str, addr)
       IN  addr' = r.addr /\ ret' = r.ret
    /\ pc' = "parsed"
    /\ UNCHANGED <<str, buf>>
    /\ UNCHANGED compareVars /\ UNCHANGED binaryVars /\ UNCHANGED generateVars

NextParse == CallParse

SpecParse == InitParse /\ [][NextParse]_vars

----------------------------------------------------------------------------
\* virMacAddrCompare, statement by statement

Max(a, b) == IF a > b THEN a ELSE b

Min(a, b) == IF a < b THEN a ELSE b

Sign(n) == IF n > 0 THEN 1 ELSE IF n < 0 THEN -1 ELSE 0

\* The condition of the two inner while loops at cursor i of s:
\* go: *s == '0' && c_isxdigit(s[1]); hi: the highest index it reads (s[1]
\* is read only when *s == '0').
SkipEval_NoLookahead(s, i) == [go |-> Ch(s, i) = Ord("0"), hi |-> i]

SkipEval(s, i) ==
    [go |-> Ch(s, i) = Ord("0") /\ c_isxdigit(Ch(s, i + 1)),
     hi |-> IF Ch(s, i) = Ord("0") THEN i + 1 ELSE i]

\* if (c == 0 || d == 0) break;
BreakTest_BothEnded(cc, dd) == cc = 0 /\ dd = 0

BreakTest(cc, dd) == cc = 0 \/ dd = 0

\* The two return statements.
CompareResult_Normalized(fits, cc, dd) == Sign(cc - dd)

CompareResult(fits, cc, dd) ==
    IF fits THEN cc - dd
    ELSE IF cc > dd THEN 1 ELSE IF cc < dd THEN -1 ELSE 0

parseVars == <<str, addr>>

CompareFrame ==
    /\ UNCHANGED <<p, q, ucharFitsInt, buf>>
    /\ UNCHANGED parseVars /\ UNCHANGED binaryVars /\ UNCHANGED generateVars

\* while (*p == '0' && c_isxdigit(p[1])) ++p;
SkipP ==
    /\ pc = "skipP"
    /\ LET e == SkipEval(p, pi)
       IN  /\ rdP' = Max(rdP, e.hi)
           /\ IF e.go
              THEN pi' = pi + 1 /\ advances' = advances + 1 /\ pc' = pc
              ELSE pi' = pi /\ advances' = advances /\ pc' = "skipQ"
    /\ UNCHANGED <<qi, c, d, rdQ, ret>>
    /\ CompareFrame

\* while (*q == '0' && c_isxdigit(q[1])) ++q;
SkipQ ==
    /\ pc = "skipQ"
    /\ LET e == SkipEval(q, qi)
       IN  /\ rdQ' = Max(rdQ, e.hi)
           /\ IF e.go
              THEN qi' = qi + 1 /\ advances' = advances + 1 /\ pc' = pc
              ELSE qi' = qi /\ advances' = advances /\ pc' = "fold"
    /\ UNCHANGED <<pi, c, d, rdP, ret>>
    /\ CompareFrame

\* c = c_tolower(*p); d = c_tolower(*q);
Fold ==
    /\ pc = "fold"
    /\ c' = c_tolower(Ch(p, pi))
    /\ d' = c_tolower(Ch(q, qi))
    /\ rdP' = Max(rdP, pi)
    /\ rdQ' = Max(rdQ, qi)
    /\ pc' = "test"
    /\ UNCHANGED <<pi, qi, advances, ret>>
    /\ CompareFrame

\* if (c == 0 || d == 0) break; ++p; ++q; } while (c == d);
Test ==
    /\ pc = "test"
    /\ IF BreakTest(c, d)
       THEN pi' = pi /\ qi' = qi /\ advances' = advances /\ pc' = "return"
       ELSE /\ pi' = pi + 1
            /\ qi' = qi + 1
            /\ advances' = advances + 2
            /\ pc' = IF c = d THEN "skipP" ELSE "return"
    /\ UNCHANGED <<c, d, rdP, rdQ, ret>>
    /\ CompareFrame

\* if (UCHAR_MAX <= INT_MAX) return c - d; return c > d ? 1 : c < d ? -1 : 0;
Return ==
    /\ pc = "return"
    /\ ret' = CompareResult(ucharFitsInt, c, d)
    /\ pc' = "compared"
    /\ UNCHANGED <<pi, qi, c, d, rdP, rdQ, advances>>
    /\ CompareFrame

\* Inputs of the comparator

MaxZeroRun == 3

RECURSIVE Zeros(_)
Zeros(n) == IF n = 0 THEN NoSeq ELSE S(<<"0">>) \o Zeros(n - 1)

\* The forms a group is written in.
GroupForms ==
    { S(<<"0">>), S(<<"0","0">>), S(<<"1">>), S(<<"0","1">>), S(<<"1","0">>),
      S(<<"1","a">>), S(<<"1","A">>), S(<<"a">>), S(<<"A">>), S(<<"0","a">>),
      S(<<"2">>), S(<<"f">>) }

VariedGroups == {1, 4, VIR_MAC_BUFLEN}

CompareInputsUpTo(maxZeroRun) ==
    { Join(1, VIR_MAC_BUFLEN, k, tok, 0, NoSeq) :
        k \in VariedGroups, tok \in GroupForms }
    \cup { S(<<"0","0",":","1","E",":","F","C",":","0","E",":","3","A",":","C","B">>),
           S(<<"0",":","1","e",":","f","c",":","e",":","3","a",":","c","b">>) }
    \cup { Zeros(n) : n \in 0..maxZeroRun }
    \cup { Zeros(n) \o S(<<":">>) : n \in 1..maxZeroRun }
    \cup { S(<<":">>), S(<<"G">>), S(<<"0","G">>), S(<<"0",":","1","E">>) }

InitCompare ==
    /\ pc = "skipP"
    /\ p \in CompareInputsUpTo(MaxZeroRun)
    /\ q \in CompareInputsUpTo(MaxZeroRun)
    /\ ucharFitsInt \in BOOLEAN
    /\ pi = 1 /\ qi = 1 /\ c = 0 /\ d = 0
    /\ rdP = 0 /\ rdQ = 0 /\ advances = 0
    /\ ret = 0
    /\ IdleParse /\ IdleBinary /\ IdleFormat /\ IdleGenerate

NextCompare == SkipP \/ SkipQ \/ Fold \/ Test \/ Return

SpecCompare == InitCompare /\ [][NextCompare]_vars

\* The function runs to its return once called: no step of it waits.
FairSpecCompare == SpecCompare /\ WF_vars(NextCompare)

----------------------------------------------------------------------------
\* memcmp over n bytes, compared as unsigned char: the difference of the
\* first pair of bytes that differ, 0 when none does.
RECURSIVE MemcmpFrom(_, _, _, _)
MemcmpFrom(a, b, i, n) ==
    IF i > n THEN 0
    ELSE IF a[i] # b[i] THEN a[i] - b[i]
    ELSE MemcmpFrom(a, b, i + 1, n)

\* The same with the bytes compared as signed char.
memcmp_SignedChar(a, b, n) ==
    LET sc(x) == [i \in 1..n |-> IF x[i] >= 128 THEN x[i] - 256 ELSE x[i]]
    IN  MemcmpFrom(sc(a), sc(b), 1, n)

memcmp(a, b, n) == MemcmpFrom(a, b, 1, n)

virMacAddrCmp(m1, m2) == memcmp(m1, m2, VIR_MAC_BUFLEN)

virMacAddrCmpRaw(m1, r) == memcmp(m1, r, VIR_MAC_BUFLEN)

\* memcpy(dst, src->addr, VIR_MAC_BUFLEN): the new content of dst.
virMacAddrGetRaw(src, dst) == [i \in 1..VIR_MAC_BUFLEN |-> src[i]]

\* SpecBinary: a caller copies mac2 into a raw buffer, then compares the
\* three addresses pairwise and mac1 with the raw buffer.

OrderOctets == {0, 127, 128, 255}

BaseAddr == [i \in 1..VIR_MAC_BUFLEN |-> 127]

BinaryAddrs ==
    { [BaseAddr EXCEPT ![k] = v] : k \in 1..VIR_MAC_BUFLEN, v \in OrderOctets }
    \cup { [BaseAddr EXCEPT ![1] = v, ![VIR_MAC_BUFLEN] = w] :
             v \in OrderOctets, w \in OrderOctets }

InitBinary ==
    /\ pc = "start"
    /\ mac1 \in BinaryAddrs
    /\ mac2 \in BinaryAddrs
    /\ mac3 \in BinaryAddrs
    /\ raw = ZeroAddr
    /\ cmp = NoSeq
    /\ ret = 0
    /\ buf = NoSeq
    /\ IdleParse /\ IdleCompare /\ IdleGenerate

BinaryFrame ==
    /\ UNCHANGED <<mac1, mac2, mac3, buf>>
    /\ UNCHANGED parseVars /\ UNCHANGED compareVars /\ UNCHANGED generateVars

CallGetRaw ==
    /\ pc = "start"
    /\ raw' = virMacAddrGetRaw(mac2, raw)
    /\ pc' = "rawset"
    /\ UNCHANGED <<cmp, ret>>
    /\ BinaryFrame

\* cmp[x][y] is virMacAddrCmp of the x-th and the y-th address.
CallCmp ==
    /\ pc = "rawset"
    /\ LET m == <<mac1, mac2, mac3>>
       IN  cmp' = [x \in 1..3 |-> [y \in 1..3 |-> virMacAddrCmp(m[x], m[y])]]
    /\ pc' = "compared"
    /\ UNCHANGED <<raw, ret>>
    /\ BinaryFrame

CallCmpRaw ==
    /\ pc = "compared"
    /\ ret' = virMacAddrCmpRaw(mac1, raw)
    /\ pc' = "rawcompared"
    /\ UNCHANGED <<raw, cmp>>
    /\ BinaryFrame

NextBinary == CallGetRaw \/ CallCmp \/ CallCmpRaw

SpecBinary == InitBinary /\ [][NextBinary]_vars

----------------------------------------------------------------------------
\* virMacAddrFormat

UpperHexDigit_Lower(v) == IF v < 10 THEN 48 + v ELSE 97 + (v - 10)

\* The digit X of printf's %X.
UpperHexDigit(v) == IF v < 10 THEN 48 + v ELSE 65 + (v - 10)

RECURSIVE HexDigitsUpper(_)
HexDigitsUpper(n) ==
    IF n < 16 THEN <<UpperHexDigit(n)>>
    ELSE HexDigitsUpper(n \div 16) \o <<UpperHexDigit(n % 16)>>

\* %2X: padded with a space.
Fmt02X_SpacePadded(n) ==
    IF n < 16 THEN <<Ord(" ")>> \o HexDigitsUpper(n) ELSE HexDigitsUpper(n)

\* %02X: at least two digits, padded with '0'.
Fmt02X(n) ==
    IF n < 16 THEN <<Ord("0")>> \o HexDigitsUpper(n) ELSE HexDigitsUpper(n)

RECURSIVE FormatFrom(_, _)
FormatFrom(a, i) ==
    IF i > Len(a) THEN NoSeq
    ELSE Fmt02X(a[i]) \o (IF i = Len(a) THEN NoSeq ELSE <<Ord(":")>>)
         \o FormatFrom(a, i + 1)

\* snprintf(str, size, ...): at most size - 1 characters are written.
snprintf(size, text) == SubSeq(text, 1, Min(Len(text), size - 1))

\* The content of str after the call.
virMacAddrFormat(a) == snprintf(VIR_MAC_STRING_BUFLEN, FormatFrom(a, 1))

\* SpecFormat: a caller formats mac1 into buf and mac2 into str, then
\* parses str back into addr.

FormatOctets == {0, 9, 10, 15, 16, 159, 160, 255}

FormatAddrs ==
    { [ZeroAddr EXCEPT ![k] = v] : k \in {1, VIR_MAC_BUFLEN}, v \in FormatOctets }
    \cup { <<170, 187, 204, 221, 238, 255>> }

EveryOctetAddrs ==
    { [ZeroAddr EXCEPT ![k] = v] : k \in 1..VIR_MAC_BUFLEN, v \in Octet }
    \cup { <<170, 187, 204, 221, 238, 255>> }

InitFormat ==
    /\ pc = "start"
    /\ mac1 \in FormatAddrs
    /\ mac2 \in EveryOctetAddrs
    /\ mac3 = ZeroAddr /\ raw = ZeroAddr /\ cmp = NoSeq
    /\ buf = NoSeq
    /\ str = NoSeq
    /\ addr = [i \in 1..VIR_MAC_BUFLEN |-> 238]
    /\ ret = 0
    /\ IdleCompare /\ IdleGenerate

CallFormat1 ==
    /\ pc = "start"
    /\ buf' = virMacAddrFormat(mac1)
    /\ pc' = "formatted1"
    /\ UNCHANGED <<str, addr, ret>>
    /\ UNCHANGED compareVars /\ UNCHANGED binaryVars /\ UNCHANGED generateVars

CallFormat2 ==
    /\ pc = "formatted1"
    /\ str' = virMacAddrFormat(mac2)
    /\ pc' = "call"
    /\ UNCHANGED <<buf, addr, ret>>
    /\ UNCHANGED compareVars /\ UNCHANGED binaryVars /\ UNCHANGED generateVars

NextFormat == CallFormat1 \/ CallFormat2 \/ CallParse

SpecFormat == InitFormat /\ [][NextFormat]_vars

----------------------------------------------------------------------------
\* virMacAddrGenerate

\* virRandomBits(8) at the n-th call: the next value of the source, 8 bits.
virRandomBits(stream, n) == stream[n] % 256

\* [addr |-> the address written, draws |-> calls of virRandomBits made so far]
virMacAddrGenerate_ForceUnicast(pre, stream, n) ==
    [addr  |-> << pre[1] - (pre[1] % 2), pre[2], pre[3],
                  virRandomBits(stream, n + 1),
                  virRandomBits(stream, n + 2),
                  virRandomBits(stream, n + 3) >>,
     draws |-> n + 3]

virMacAddrGenerate(pre, stream, n) ==
    [addr  |-> << pre[1], pre[2], pre[3],
                  virRandomBits(stream, n + 1),
                  virRandomBits(stream, n + 2),
                  virRandomBits(stream, n + 3) >>,
     draws |-> n + 3]

\* SpecGenerate: a caller generates addresses from one prefix.

MaxCalls == 2

PrefixOctets == {0, 1, 82, 84}

RandomOctets == {0, 165}

InitGenerate ==
    /\ pc = "start"
    /\ prefix \in [1..VIR_MAC_PREFIX_BUFLEN -> PrefixOctets]
    /\ rng \in [1..(3 * MaxCalls) -> RandomOctets]
    /\ draws = 0
    /\ addr = [i \in 1..VIR_MAC_BUFLEN |-> 238]
    /\ str = NoSeq
    /\ ret = 0
    /\ buf = NoSeq
    /\ IdleCompare /\ IdleBinary

CallGenerate ==
    /\ draws + 3 <= Len(rng)
    /\ LET g == virMacAddrGenerate(prefix, rng, draws)
       IN  addr' = g.addr /\ draws' = g.draws
    /\ pc' = "generated"
    /\ UNCHANGED <<prefix, rng, str, ret, buf>>
    /\ UNCHANGED compareVars /\ UNCHANGED binaryVars

NextGenerate == CallGenerate

SpecGenerate == InitGenerate /\ [][NextGenerate]_vars

----------------------------------------------------------------------------
\* The grammar of an address text, stated on its own: fields between ':'s

HexChars ==
    { Ord(x) : x \in {"0","1","2","3","4","5","6","7","8","9",
                      "a","b","c","d","e","f","A","B","C","D","E","F"} }

RECURSIVE FieldEnd(_, _)
FieldEnd(s, i) ==
    IF i > Len(s) \/ s[i] = Ord(":") THEN i ELSE FieldEnd(s, i + 1)

RECURSIVE FieldsFrom(_, _)
FieldsFrom(s, i) ==
    LET j == FieldEnd(s, i)
    IN  <<SubSeq(s, i, j - 1)>> \o (IF j > Len(s) THEN << >> ELSE FieldsFrom(s, j + 1))

Fields(s) == FieldsFrom(s, 1)

IsGroup(t) == Len(t) \in {1, 2} /\ \A k \in 1..Len(t) : t[k] \in HexChars

NibbleOf(ch) ==
    LET lower == <<"0","1","2","3","4","5","6","7","8","9","a","b","c","d","e","f">>
        upper == <<"0","1","2","3","4","5","6","7","8","9","A","B","C","D","E","F">>
    IN  (CHOOSE n \in 1..16 : Ord(lower[n]) = ch \/ Ord(upper[n]) = ch) - 1

GroupValue(t) ==
    IF Len(t) = 1 THEN NibbleOf(t[1]) ELSE 16 * NibbleOf(t[1]) + NibbleOf(t[2])

WellFormed(s) ==
    /\ Len(Fields(s)) = VIR_MAC_BUFLEN
    /\ \A i \in 1..VIR_MAC_BUFLEN : IsGroup(Fields(s)[i])

\* The address a well-formed text denotes.
Denoted(s) == [i \in 1..VIR_MAC_BUFLEN |-> GroupValue(Fields(s)[i])]

\* Number of leading fields that are groups and are followed by a ':'.
RECURSIVE LeadingGroupsFrom(_, _)
LeadingGroupsFrom(fs, i) ==
    IF i < Len(fs) /\ IsGroup(fs[i]) THEN 1 + LeadingGroupsFrom(fs, i + 1) ELSE 0

LeadingGroups(s) == LeadingGroupsFrom(Fields(s), 1)

----------------------------------------------------------------------------
\* C1: virMacAddrParse returns 0 exactly on the texts made of 6 groups of 1 or
\* 2 hex digits separated by single ':' with nothing before or after, returns
\* -1 on every other text, and on success octet i is the value of group i.
C1_ParseAcceptsExactlyGrammar ==
    pc = "parsed" =>
        /\ ret \in {0, -1}
        /\ (ret = 0) <=> WellFormed(str)
        /\ ret = 0 => addr = Denoted(str)

\* A text with one-digit, two-digit, upper and lower case groups was accepted.
C1_Witness ==
    /\ pc = "parsed"
    /\ ret = 0
    /\ str = S(<<"0",":","1","E",":","F","C",":","E",":","3","a",":","C","B">>)
    /\ addr = <<0, 30, 252, 14, 58, 203>>

\* C2 (as claimed): a failing call leaves the destination as it was.
C2_FailureLeavesDestination ==
    [][(pc = "call" /\ pc' = "parsed" /\ ret' = -1) => addr' = addr]_vars

\* C2 (amended): a failing call may have overwritten a prefix of the
\* destination.  With k the number of leading ':'-terminated well-formed
\* groups of the text, octets 0..min(k,6)-1 hold the values of those groups,
\* every octet beyond index k keeps its value, and the destination is wholly
\* unchanged when the text does not start with a hex digit.
C2_FailureOverwritesOnlyPrefix ==
    [][(pc = "call" /\ pc' = "parsed" /\ ret' = -1) =>
         LET k == LeadingGroups(str)
         IN  /\ \A i \in 1..Min(k, VIR_MAC_BUFLEN) :
                    addr'[i] = GroupValue(Fields(str)[i])
             /\ \A i \in 1..VIR_MAC_BUFLEN : i > k + 1 => addr'[i] = addr[i]
             /\ (Ch(str, 1) \notin HexChars) => addr' = addr]_vars

\* A five-group text failed after its five octets were stored.
C2_Witness ==
    /\ pc = "parsed"
    /\ ret = -1
    /\ str = S(<<"0",":","1","E",":","F","C",":","E",":","3","a">>)
    /\ addr = <<0, 30, 252, 14, 58, 238>>

----------------------------------------------------------------------------
\* Claims about virMacAddrCompare

\* The text is one virMacAddrParse accepts / the address it stores.
Accepted(s) == virMacAddrParse(s, ZeroAddr).ret = 0
Parsed(s) == virMacAddrParse(s, ZeroAddr).addr

\* C4 (as claimed): the result of virMacAddrCompare is one of -1, 0, 1.
C4_ResultIsTrichotomy ==
    pc = "compared" => ret \in {-1, 0, 1}

\* C4 (amended): the result is the difference of the two folded characters
\* at which the scan stopped, an integer in -255..255 of which only the sign is
\* the three-way result; it is confined to -1, 0, 1 only on a build where
\* UCHAR_MAX exceeds INT_MAX.
C4_ResultIsCharacterDifference ==
    pc = "compared" =>
        /\ ret \in -255..255
        /\ ucharFitsInt => ret = c - d
        /\ ~ucharFitsInt => ret = Sign(c - d)
        /\ (c = 0 \/ d = 0) =>
               c = c_tolower(Ch(p, pi)) /\ d = c_tolower(Ch(q, qi))
        /\ (c # 0 /\ d # 0) =>
               c = c_tolower(Ch(p, pi - 1)) /\ d = c_tolower(Ch(q, qi - 1))

\* "1:1E:FC:E:3a:CB" against "10:1E:FC:E:3a:CB" returned ':' - '0' = 10.
C4_Witness ==
    /\ pc = "compared"
    /\ ucharFitsInt
    /\ p = S(<<"1",":","1","E",":","F","C",":","E",":","3","a",":","C","B">>)
    /\ q = S(<<"1","0",":","1","E",":","F","C",":","E",":","3","a",":","C","B">>)
    /\ ret = 10

\* C5: on two texts virMacAddrParse accepts, virMacAddrCompare returns 0
\* exactly when the two parsed addresses are equal octet for octet.
C5_LenientEqualityIsAddressEquality ==
    (pc = "compared" /\ Accepted(p) /\ Accepted(q)) =>
        ((ret = 0) <=> (Parsed(p) = Parsed(q)))

\* "0:1E:FC:E:3a:CB" and "00:1E:FC:0E:3A:CB" compared equal.
C5_Witness ==
    /\ pc = "compared"
    /\ p = S(<<"0",":","1","E",":","F","C",":","E",":","3","a",":","C","B">>)
    /\ q = S(<<"0","0",":","1","E",":","F","C",":","0","E",":","3","A",":","C","B">>)
    /\ ret = 0

\* C6 (as claimed): on two texts virMacAddrParse accepts, the sign of
\* virMacAddrCompare is the sign of virMacAddrCmp on the parsed addresses.
C6_LenientOrderIsNumeric ==
    (pc = "compared" /\ Accepted(p) /\ Accepted(q)) =>
        Sign(ret) = Sign(virMacAddrCmp(Parsed(p), Parsed(q)))

\* Index of the first octet at which two different addresses differ.
FirstDiff(a, b) == CHOOSE i \in 1..VIR_MAC_BUFLEN :
                       a[i] # b[i] /\ \A k \in 1..(i - 1) : a[k] = b[k]

\* C6 (amended): the sign of virMacAddrCompare is the sign of virMacAddrCmp on
\* the parsed addresses when the addresses are equal or the two octets at the
\* first differing position need the same number of hex digits (both below
\* 0x10 or both at least 0x10).
C6_LenientOrderIsNumericAtEqualWidth ==
    (pc = "compared" /\ Accepted(p) /\ Accepted(q)) =>
        LET a == Parsed(p)
            b == Parsed(q)
        IN  (a = b \/ ((a[FirstDiff(a, b)] < 16) <=> (b[FirstDiff(a, b)] < 16)))
                => Sign(ret) = Sign(virMacAddrCmp(a, b))

\* "0:1E:FC:01:3a:CB" compared below "0:1E:FC:2:3a:CB".
C6_Witness ==
    /\ pc = "compared"
    /\ p = S(<<"0",":","1","E",":","F","C",":","0","1",":","3","a",":","C","B">>)
    /\ q = S(<<"0",":","1","E",":","F","C",":","2",":","3","a",":","C","B">>)
    /\ ret < 0

\* C10, the part that holds in every state: each cursor is at most the index
\* of its string's terminator, nothing beyond a terminator is read, the
\* look-ahead character is read only when the current one is '0', a cursor
\* stays where it is once either folded character is the terminator, and at
\* most len(p) + len(q) + 1 cursor advances are made.
CompareSafe ==
    /\ pi \in 1..(Len(p) + 1)
    /\ qi \in 1..(Len(q) + 1)
    /\ rdP <= Len(p) + 1
    /\ rdQ <= Len(q) + 1
    /\ rdP <= pi + 1
    /\ rdQ <= qi + 1
    /\ rdP = pi + 1 => Ch(p, pi) = Ord("0")
    /\ rdQ = qi + 1 => Ch(q, qi) = Ord("0")
    /\ advances <= Len(p) + Len(q) + 1
    /\ (pc \in {"return", "compared"} /\ (c = 0 \/ d = 0)) =>
           /\ c = c_tolower(Ch(p, pi))
           /\ d = c_tolower(Ch(q, qi))
           /\ (Ch(p, pi) = 0 \/ Ch(q, qi) = 0)

\* C10: the scan of virMacAddrCompare is memory-safe and ends, on any two
\* terminated texts.
C10_ScanIsSafeAndTerminates ==
    []CompareSafe /\ <>(pc = "compared")

\* The scan ended on "000" against "0:1E" with p's cursor past its two
\* redundant zeros and q's cursor on the ':'.
C10_Witness ==
    /\ pc = "compared"
    /\ p = S(<<"0","0","0">>)
    /\ q = S(<<"0",":","1","E">>)
    /\ pi = 4 /\ qi = 2
    /\ rdP = 4 /\ rdQ = 2
    /\ advances = 4

----------------------------------------------------------------------------
\* Claims about virMacAddrFormat and the round trip

UpperDigits ==
    S(<<"0","1","2","3","4","5","6","7","8","9","A","B","C","D","E","F">>)

\* text is XX:XX:XX:XX:XX:XX for the octets of a: 17 characters, two
\* uppercase digits per octet, ':' at (1-based) positions 3, 6, 9, 12, 15.
Canonical(text, a) ==
    /\ Len(text) = 17
    /\ \A i \in 1..VIR_MAC_BUFLEN :
           /\ text[3 * i - 2] = UpperDigits[(a[i] \div 16) + 1]
           /\ text[3 * i - 1] = UpperDigits[(a[i] % 16) + 1]
           /\ i < VIR_MAC_BUFLEN => text[3 * i] = Ord(":")

\* C3: virMacAddrParse of the text virMacAddrFormat(x) wrote succeeds and
\* stores an address equal to x (virMacAddrCmp of the two is 0).
C3_RoundTrip ==
    pc = "parsed" =>
        /\ ret = 0
        /\ addr = mac2
        /\ virMacAddrCmp(addr, mac2) = 0

\* AA:BB:CC:DD:EE:FF was written for aa:bb:cc:dd:ee:ff and parsed back.
C3_Witness ==
    /\ pc = "parsed"
    /\ mac2 = <<170, 187, 204, 221, 238, 255>>
    /\ str = S(<<"A","A",":","B","B",":","C","C",":","D","D",":","E","E",":","F","F">>)
    /\ addr = mac2
    /\ ret = 0

\* C8: virMacAddrFormat writes exactly the 17 characters XX:XX:XX:XX:XX:XX
\* (uppercase, zero-padded, in octet order) and the terminator, leaves the
\* address unchanged, and writes different texts for different addresses.
C8_FormatShape ==
    [][/\ (pc = "start" /\ pc' = "formatted1") =>
              /\ mac1' = mac1
              /\ Canonical(buf', mac1)
              /\ Ch(buf', VIR_MAC_STRING_BUFLEN) = 0
       /\ (pc = "formatted1" /\ pc' = "call") =>
              /\ mac2' = mac2
              /\ Canonical(str', mac2)
              /\ Ch(str', VIR_MAC_STRING_BUFLEN) = 0
              /\ (mac1 # mac2) => (str' # buf')]_vars

\* 00:00:00:00:00:A0 and 0A:00:00:00:00:00 were written for two addresses.
C8_Witness ==
    /\ pc = "call"
    /\ mac1 = <<0, 0, 0, 0, 0, 160>>
    /\ mac2 = <<10, 0, 0, 0, 0, 0>>
    /\ buf = S(<<"0","0",":","0","0",":","0","0",":","0","0",":","0","0",":","A","0">>)
    /\ str = S(<<"0","A",":","0","0",":","0","0",":","0","0",":","0","0",":","0","0">>)

----------------------------------------------------------------------------
\* Claims about the binary comparators

\* C7: virMacAddrCmp is a total order in lexicographic unsigned octet order:
\* reflexive, 0 exactly on equal addresses, antisymmetric in sign, transitive,
\* decided by the first differing octet compared in 0..255; virMacAddrCmpRaw
\* on a buffer holding an address's octets has the sign of virMacAddrCmp.
C7_BinaryComparatorIsTotalOrder ==
    pc = "rawcompared" =>
        LET m == <<mac1, mac2, mac3>>
        IN  /\ \A x \in 1..3 : cmp[x][x] = 0
            /\ \A x, y \in 1..3 :
                   /\ (cmp[x][y] = 0) <=> (m[x] = m[y])
                   /\ Sign(cmp[x][y]) = -Sign(cmp[y][x])
                   /\ m[x] # m[y] =>
                        LET k == FirstDiff(m[x], m[y])
                        IN  (cmp[x][y] < 0) <=> (m[x][k] < m[y][k])
            /\ \A x, y, z \in 1..3 :
                   (cmp[x][y] <= 0 /\ cmp[y][z] <= 0) => cmp[x][z] <= 0
            /\ raw = mac2
            /\ Sign(ret) = Sign(cmp[1][2])

\* An address starting 0x80 compared above one starting 0x7F, and below one
\* starting 0xFF.
C7_Witness ==
    /\ pc = "rawcompared"
    /\ mac1[1] = 128 /\ mac2[1] = 127 /\ mac3[1] = 255
    /\ cmp[1][2] > 0 /\ cmp[1][3] < 0 /\ cmp[2][3] < 0
    /\ ret > 0

----------------------------------------------------------------------------
\* Claims about virMacAddrGenerate

\* C9: virMacAddrGenerate writes the prefix verbatim into octets 0..2 and
\* the next three values of the randomness source, in the order drawn, into
\* octets 3, 4, 5; it draws exactly three values and leaves the prefix
\* buffer unchanged.
C9_GenerateKeepsPrefixAndDrawsThree ==
    [][/\ prefix' = prefix
       /\ draws' = draws + 3
       /\ addr' = << prefix[1], prefix[2], prefix[3],
                     rng[draws + 1], rng[draws + 2], rng[draws + 3] >>]_vars

\* The second call on a prefix with the multicast bit set wrote a multicast
\* address from the fourth to sixth values of the source.
C9_Witness ==
    /\ pc = "generated"
    /\ prefix = <<1, 84, 0>>
    /\ rng = <<0, 0, 0, 165, 0, 165>>
    /\ draws = 6
    /\ addr = <<1, 84, 0, 165, 0, 165>>

====
